---- MODULE Spec2Model ----
(***************************************************************************)
(* Model of the ramp-up load tester in src/main.py.                        *)
(*                                                                         *)
(* main() computes a stride, iterates range(start, max + 1, stride), and   *)
(* runs ramp_up_requests() once per level.  ramp_up_requests() opens one   *)
(* httpx client, and while less than duration_per_step seconds have        *)
(* elapsed launches num_requests send_request() coroutines and awaits them *)
(* with asyncio.gather().                                                  *)
(*                                                                         *)
(* Time: the clock `now` counts whole seconds.  perf_counter_ns() is `now` *)
(* (scaled), so an elapsed time of k ticks is k seconds and a latency of k *)
(* ticks is k * MsPerTick milliseconds.  Time passes only while the        *)
(* program is suspended (awaiting the wave, sleeping) or spinning through  *)
(* waves of zero requests; a request takes at least one tick.              *)
(***************************************************************************)
EXTENDS Integers, Sequences, FiniteSets

\* ---- bounds of the model ------------------------------------------------
MaxRequests == 4    \* --start-requests and --max-requests range over 0..MaxRequests
MaxDuration == 10   \* --duration ranges over -1..MaxDuration
MaxFaulty == 2      \* largest --max-requests run against a server that misbehaves
MaxLatency == 7     \* a request is answered within MaxLatency ticks
MaxFaults == 1      \* requests per run that a misbehaving server answers late or badly
MaxSamples == 5     \* longest step result handed to the statistics in SpecStats

\* ---- program constants --------------------------------------------------
StepSeconds == 5        \* total_steps = duration // 5
duration_per_step == 5  \* main's duration_per_step, the window of each step
SleepSeconds == 1       \* asyncio.sleep(1)
MsPerTick == 1000       \* one tick is one second; latencies are in ms
PercentileQ == 95       \* np.percentile(times, 95)

VARIABLES
    start_requests,         \* args.start_requests
    max_requests,           \* args.max_requests
    duration,               \* args.duration
    pc,                     \* position of main()
    error,                  \* the exception that ended the run, or "none"
    ramp_up_step,           \* main's ramp_up_step
    next_level,             \* the next value the range iterator yields
    num_requests,           \* loop variable of main's for loop
    client_open,            \* the httpx.AsyncClient of the current step
    now,                    \* the clock
    start_time,             \* ramp_up_requests' start_time
    req_start,              \* send_request's start_time of the current wave
    sleep_start,            \* when asyncio.sleep(1) was entered
    tasks,                  \* the coroutines handed to gather, in launch order
    inflight,               \* requests posted and not yet answered or cancelled
    process_times,          \* ramp_up_requests' process_times
    average_response_times, \* main's result series
    concurrent_users,
    all_process_times,
    percentiles,            \* save_plots_to_html's series
    max_times,
    throughputs,
    running_log,            \* levels printed by "Running with N concurrent requests..."
    status_log,             \* history: HTTP status class of each entry of process_times
    all_status_log,         \* history: the status_log of each entry of all_process_times
    all_elapsed,            \* history: the seconds each recorded step actually took
    faults_left,            \* environment: requests the server may still answer late or badly
    launched                \* history: requests posted since the current step began

vars == <<start_requests, max_requests, duration, pc, error, ramp_up_step,
          next_level, num_requests, client_open, now, start_time, req_start,
          sleep_start, tasks, inflight, process_times, average_response_times,
          concurrent_users, all_process_times, percentiles, max_times,
          throughputs, running_log, status_log, all_status_log, all_elapsed,
          faults_left, launched>>

\* ---- arithmetic as Python computes it -----------------------------------
Abs(x) == IF x < 0 THEN -x ELSE x

\* Python's //: floor division, for a divisor of either sign (b # 0).
FloorDiv(a, b) ==
    LET q == Abs(a) \div Abs(b)
        exact == q * Abs(b) = Abs(a)
    IN  IF (a >= 0) = (b > 0) THEN q
        ELSE IF exact THEN -q ELSE -(q + 1)

\* math.ceil(a / b) for b # 0.
CeilDiv(a, b) == -FloorDiv(-a, b)

RECURSIVE GCD(_, _)
GCD(a, b) == IF b = 0 THEN Abs(a) ELSE GCD(b, a % b)

\* A fraction num/den (den > 0) in lowest terms: equal values are equal tuples.
Frac(num, den) ==
    LET g == GCD(Abs(num), den)
    IN  <<num \div g, den \div g>>

RECURSIVE SumSeq(_)
SumSeq(s) == IF s = <<>> THEN 0 ELSE Head(s) + SumSeq(Tail(s))

RECURSIVE MaxSeq(_)
MaxSeq(s) ==
    IF Len(s) = 1 THEN s[1]
    ELSE LET m == MaxSeq(Tail(s)) IN IF s[1] >= m THEN s[1] ELSE m

RECURSIVE Insert(_, _)
Insert(x, s) ==
    IF s = <<>> THEN <<x>>
    ELSE IF x <= Head(s) THEN <<x>> \o s
    ELSE <<Head(s)>> \o Insert(x, Tail(s))

RECURSIVE Sorted(_)
Sorted(s) == IF s = <<>> THEN <<>> ELSE Insert(Head(s), Sorted(Tail(s)))

\* statistics.mean(times), times non-empty.
Mean(times) == Frac(SumSeq(times), Len(times))

\* Mutant of Percentile: the lower neighbour is taken, without interpolation
\* (np.percentile(times, q, method="lower")).
PercentileLower(times, q) ==
    LET s == Sorted(times)
        lo == (q * (Len(s) - 1)) \div 100
    IN  Frac(s[lo + 1], 1)

\* np.percentile(times, q), linear interpolation: virtual index
\* q/100 * (n - 1) into the sorted samples, interpolated between neighbours.
Percentile(times, q) ==
    LET s == Sorted(times)
        n == Len(s)
        idx100 == q * (n - 1)
        lo == idx100 \div 100
        fr == idx100 % 100
        hi == IF lo + 1 < n THEN lo + 1 ELSE lo
    IN  Frac(100 * s[lo + 1] + fr * (s[hi + 1] - s[lo + 1]), 100)

\* len(times) / duration_per_step
Throughput(times) == Frac(Len(times), duration_per_step)

\* ---- calculate_ramp_up_step ---------------------------------------------
TotalSteps(d) == FloorDiv(d, StepSeconds)

\* Mutant of RampUpStep: the quotient is rounded down
\* ((max_requests - start_requests) // total_steps).
RampUpStepFloor(s, m, d) == FloorDiv(m - s, TotalSteps(d))

\* math.ceil((max_requests - start_requests) / total_steps)
RampUpStep(s, m, d) == CeilDiv(m - s, TotalSteps(d))

\* range(start, stop, step) has a next element at v (step # 0).
InRange(v, stop, step) == IF step > 0 THEN v < stop ELSE v > stop

\* ---- the wave ------------------------------------------------------------
Pending == {i \in DOMAIN tasks : tasks[i].state = "pending"}

Elapsed == now - start_time

\* The requests of the current wave have been out for more than one tick.
Late == now - req_start > 1

TypeOK ==
    /\ pc \in {"calc", "range", "for", "while", "gather", "aborting", "sleep",
               "report", "done", "crashed"}
    /\ error \in {"none", "ZeroDivisionError", "ValueError", "RequestError"}
    /\ client_open \in BOOLEAN
    /\ inflight \in Nat
    /\ now \in Nat

\* The command line (lines 48-50, 57-59) is any three integers of the bounded
\* ranges.  The server either answers every request within one tick with a
\* success status (unless the request raises), or, for the smaller
\* configurations and a test of one window's length, may answer up to
\* MaxFaults requests late (after more than one tick), with a non-success
\* status, or both.
Init ==
    /\ start_requests \in 0..MaxRequests
    /\ max_requests \in 0..MaxRequests
    /\ duration \in (-1)..MaxDuration
    /\ \/ faults_left = 0
       \/ /\ start_requests <= MaxFaulty
          /\ max_requests <= MaxFaulty
          /\ duration = duration_per_step
          /\ faults_left = MaxFaults
    /\ pc = "calc"
    /\ error = "none"
    /\ ramp_up_step = 0
    /\ next_level = 0
    /\ num_requests = 0
    /\ client_open = FALSE
    /\ now = 0
    /\ start_time = 0
    /\ req_start = 0
    /\ sleep_start = 0
    /\ tasks = <<>>
    /\ inflight = 0
    /\ launched = 0
    /\ process_times = <<>>
    /\ average_response_times = <<>>
    /\ concurrent_users = <<>>
    /\ all_process_times = <<>>
    /\ percentiles = <<>>
    /\ max_times = <<>>
    /\ throughputs = <<>>
    /\ running_log = <<>>
    /\ status_log = <<>>
    /\ all_status_log = <<>>
    /\ all_elapsed = <<>>

\* main line 62: ramp_up_step = calculate_ramp_up_step(...).  duration // 5 = 0
\* makes the division raise ZeroDivisionError, which ends the run.
CalcRampUpStep ==
    /\ pc = "calc"
    /\ IF TotalSteps(duration) = 0
       THEN /\ pc' = "crashed"
            /\ error' = "ZeroDivisionError"
            /\ UNCHANGED ramp_up_step
       ELSE /\ ramp_up_step' = RampUpStep(start_requests, max_requests, duration)
            /\ pc' = "range"
            /\ UNCHANGED error
    /\ UNCHANGED <<start_requests, max_requests, duration, next_level,
                   num_requests, client_open, now, start_time, req_start,
                   sleep_start, tasks, inflight, process_times,
                   average_response_times, concurrent_users, all_process_times,
                   percentiles, max_times, throughputs, running_log, status_log,
                   all_status_log, all_elapsed, faults_left, launched>>

\* main line 79: range(start_requests, max_requests + 1, ramp_up_step).  A step
\* of zero makes range() raise ValueError.
MakeRange ==
    /\ pc = "range"
    /\ IF ramp_up_step = 0
       THEN /\ pc' = "crashed"
            /\ error' = "ValueError"
            /\ UNCHANGED next_level
       ELSE /\ next_level' = start_requests
            /\ pc' = "for"
            /\ UNCHANGED error
    /\ UNCHANGED <<start_requests, max_requests, duration, ramp_up_step,
                   num_requests, client_open, now, start_time, req_start,
                   sleep_start, tasks, inflight, process_times,
                   average_response_times, concurrent_users, all_process_times,
                   percentiles, max_times, throughputs, running_log, status_log,
                   all_status_log, all_elapsed, faults_left, launched>>

\* main lines 79-81 and ramp_up_requests lines 31-33: the iterator yields the
\* next level, the step is announced, the client is opened, the step's clock
\* and accumulator are initialised.
ForNext ==
    /\ pc = "for"
    /\ InRange(next_level, max_requests + 1, ramp_up_step)
    /\ num_requests' = next_level
    /\ next_level' = next_level + ramp_up_step
    /\ running_log' = Append(running_log, next_level)
    /\ client_open' = TRUE
    /\ start_time' = now
    /\ process_times' = <<>>
    /\ status_log' = <<>>
    /\ launched' = 0
    /\ pc' = "while"
    /\ UNCHANGED <<start_requests, max_requests, duration, error, ramp_up_step,
                   now, req_start, sleep_start, tasks, inflight,
                   average_response_times, concurrent_users, all_process_times,
                   percentiles, max_times, throughputs, all_status_log, all_elapsed,
                   faults_left>>

\* main line 79: the range is exhausted, the loop ends.
ForExit ==
    /\ pc = "for"
    /\ ~InRange(next_level, max_requests + 1, ramp_up_step)
    /\ pc' = "report"
    /\ UNCHANGED <<start_requests, max_requests, duration, error, ramp_up_step,
                   next_level, num_requests, client_open, now, start_time,
                   req_start, sleep_start, tasks, inflight, process_times,
                   average_response_times, concurrent_users, all_process_times,
                   percentiles, max_times, throughputs, running_log, status_log,
                   all_status_log, all_elapsed, faults_left, launched>>

\* Mutant of Launch: the loop condition is <=, so a wave is also dispatched
\* when the window has just elapsed.
LaunchAtWindowEnd ==
    /\ pc = "while"
    /\ Elapsed <= duration_per_step
    /\ num_requests > 0
    /\ tasks' = [i \in 1..num_requests |->
                    [state |-> "pending", ms |-> 0, status |-> "none"]]
    /\ req_start' = now
    /\ inflight' = inflight + num_requests
    /\ launched' = launched + num_requests
    /\ pc' = "gather"
    /\ UNCHANGED <<start_requests, max_requests, duration, error, ramp_up_step,
                   next_level, num_requests, client_open, now, start_time,
                   sleep_start, process_times, average_response_times,
                   concurrent_users, all_process_times, percentiles, max_times,
                   throughputs, running_log, status_log, all_status_log, all_elapsed,
                   faults_left>>

\* ramp_up_requests lines 34-36: the window has not elapsed; num_requests
\* send_request coroutines are created and handed to gather, each reads its
\* start_time and posts its request.
Launch ==
    /\ pc = "while"
    /\ Elapsed < duration_per_step
    /\ num_requests > 0
    /\ tasks' = [i \in 1..num_requests |->
                    [state |-> "pending", ms |-> 0, status |-> "none"]]
    /\ req_start' = now
    /\ inflight' = inflight + num_requests
    /\ launched' = launched + num_requests
    /\ pc' = "gather"
    /\ UNCHANGED <<start_requests, max_requests, duration, error, ramp_up_step,
                   next_level, num_requests, client_open, now, start_time,
                   sleep_start, process_times, average_response_times,
                   concurrent_users, all_process_times, percentiles, max_times,
                   throughputs, running_log, status_log, all_status_log, all_elapsed,
                   faults_left>>

\* ramp_up_requests lines 34-37 with num_requests = 0: gather() of nothing
\* returns [] without suspending, so the loop spins until the window elapses.
Spin ==
    /\ pc = "while"
    /\ Elapsed < duration_per_step
    /\ num_requests <= 0
    /\ now' = now + 1
    /\ UNCHANGED <<start_requests, max_requests, duration, pc, error,
                   ramp_up_step, next_level, num_requests, client_open,
                   start_time, req_start, sleep_start, tasks, inflight,
                   process_times, average_response_times, concurrent_users,
                   all_process_times, percentiles, max_times, throughputs,
                   running_log, status_log, all_status_log, all_elapsed, faults_left, launched>>

\* Mutant of Respond: the request appends its latency to the step's
\* accumulator itself (process_times.append in send_request).
RespondAppending(i, st) ==
    /\ pc \in {"gather", "aborting"}
    /\ i \in Pending
    /\ now > req_start
    /\ st = "bad" => (Late \/ faults_left > 0)
    /\ tasks' = [tasks EXCEPT ![i] = [state |-> "done",
                                      ms |-> (now - req_start) * MsPerTick,
                                      status |-> st]]
    /\ process_times' = Append(process_times, (now - req_start) * MsPerTick)
    /\ inflight' = inflight - 1
    /\ faults_left' = IF st = "bad" /\ ~Late THEN faults_left - 1
                                               ELSE faults_left
    /\ UNCHANGED <<start_requests, max_requests, duration, pc, error,
                   ramp_up_step, next_level, num_requests, client_open, now,
                   start_time, req_start, sleep_start,
                   average_response_times, concurrent_users, all_process_times,
                   percentiles, max_times, throughputs, running_log, status_log,
                   all_status_log, all_elapsed, launched>>

\* send_request lines 23-26: the response of request i arrives, with a success
\* or a non-success status; the status is not looked at and the elapsed time
\* is the coroutine's result.  After a sibling raised, the result is dropped.
Respond(i, st) ==
    /\ pc \in {"gather", "aborting"}
    /\ i \in Pending
    /\ now > req_start
    /\ st = "bad" => (Late \/ faults_left > 0)
    /\ tasks' = [tasks EXCEPT ![i] = [state |-> "done",
                                      ms |-> (now - req_start) * MsPerTick,
                                      status |-> st]]
    /\ inflight' = inflight - 1
    /\ faults_left' = IF st = "bad" /\ ~Late THEN faults_left - 1
                                               ELSE faults_left
    /\ UNCHANGED <<start_requests, max_requests, duration, pc, error,
                   ramp_up_step, next_level, num_requests, client_open, now,
                   start_time, req_start, sleep_start, process_times,
                   average_response_times, concurrent_users, all_process_times,
                   percentiles, max_times, throughputs, running_log, status_log,
                   all_status_log, all_elapsed, launched>>

\* send_request line 23 raises (connection refused, timeout, protocol error).
\* Nothing catches it: gather (return_exceptions=False) hands the first
\* exception to ramp_up_requests at once and leaves the other requests running.
Raise(i) ==
    /\ pc \in {"gather", "aborting"}
    /\ i \in Pending
    /\ tasks' = [tasks EXCEPT ![i] = [state |-> "raised", ms |-> 0,
                                      status |-> "none"]]
    /\ inflight' = inflight - 1
    /\ error' = "RequestError"
    /\ pc' = "aborting"
    /\ UNCHANGED <<start_requests, max_requests, duration, ramp_up_step,
                   next_level, num_requests, client_open, now, start_time,
                   req_start, sleep_start, process_times,
                   average_response_times, concurrent_users, all_process_times,
                   percentiles, max_times, throughputs, running_log, status_log,
                   all_status_log, all_elapsed, faults_left, launched>>

\* Mutant of Abort: the client is closed by an explicit call at the end of the
\* step instead of a context manager, so an exception leaves it open.
AbortLeavingClient ==
    /\ pc = "aborting"
    /\ tasks' = [i \in DOMAIN tasks |->
                    IF tasks[i].state = "pending"
                    THEN [tasks[i] EXCEPT !.state = "cancelled"]
                    ELSE tasks[i]]
    /\ inflight' = 0
    /\ pc' = "crashed"
    /\ UNCHANGED <<start_requests, max_requests, duration, error, ramp_up_step,
                   next_level, num_requests, client_open, now, start_time,
                   req_start, sleep_start, process_times,
                   average_response_times, concurrent_users, all_process_times,
                   percentiles, max_times, throughputs, running_log, status_log,
                   all_status_log, all_elapsed, faults_left, launched>>

\* ramp_up_requests line 31 (__aexit__) and line 228: the exception leaves the
\* async with block, which closes the client, then main; asyncio.run cancels
\* the requests still running and the process ends with the exception.
Abort ==
    /\ pc = "aborting"
    /\ client_open' = FALSE
    /\ tasks' = [i \in DOMAIN tasks |->
                    IF tasks[i].state = "pending"
                    THEN [tasks[i] EXCEPT !.state = "cancelled"]
                    ELSE tasks[i]]
    /\ inflight' = 0
    /\ pc' = "crashed"
    /\ UNCHANGED <<start_requests, max_requests, duration, error, ramp_up_step,
                   next_level, num_requests, now, start_time, req_start,
                   sleep_start, process_times, average_response_times,
                   concurrent_users, all_process_times, percentiles, max_times,
                   throughputs, running_log, status_log, all_status_log, all_elapsed,
                   faults_left, launched>>

\* Mutant of GatherDone: the wait returns on the first completed request
\* (asyncio.wait(..., return_when=FIRST_COMPLETED) instead of gather).
GatherDoneFirst == \E i \in DOMAIN tasks : tasks[i].state = "done"

\* gather resolves when every awaitable is done.
GatherDone == Pending = {}

\* ramp_up_requests lines 36-37: gather returns the results in launch order
\* and they are appended to process_times.
GatherReturn ==
    /\ pc = "gather"
    /\ GatherDone
    /\ process_times' = process_times \o [i \in DOMAIN tasks |-> tasks[i].ms]
    /\ status_log' = status_log \o [i \in DOMAIN tasks |-> tasks[i].status]
    /\ tasks' = <<>>
    /\ pc' = "while"
    /\ UNCHANGED <<start_requests, max_requests, duration, error, ramp_up_step,
                   next_level, num_requests, client_open, now, start_time,
                   req_start, sleep_start, inflight, average_response_times,
                   concurrent_users, all_process_times, percentiles, max_times,
                   throughputs, running_log, all_status_log, all_elapsed, faults_left, launched>>

\* The while condition of line 34 is false.
WindowElapsed == Elapsed >= duration_per_step

\* main lines 83-87: a step with samples is recorded.
RecordStep ==
    IF process_times # <<>>
    THEN /\ average_response_times' =
                Append(average_response_times, Mean(process_times))
         /\ concurrent_users' = Append(concurrent_users, num_requests)
         /\ all_process_times' = Append(all_process_times, process_times)
         /\ all_status_log' = Append(all_status_log, status_log)
         /\ all_elapsed' = Append(all_elapsed, Elapsed)
    ELSE UNCHANGED <<average_response_times, concurrent_users,
                     all_process_times, all_status_log, all_elapsed>>

\* Mutant of StepReturn: the window is a deadline.  The step also returns when
\* the window expires while the wave is still awaited, leaving it behind.
StepReturnAtDeadline ==
    /\ pc \in {"while", "gather"}
    /\ WindowElapsed
    /\ client_open' = FALSE
    /\ RecordStep
    /\ sleep_start' = now
    /\ pc' = "sleep"
    /\ UNCHANGED <<start_requests, max_requests, duration, error, ramp_up_step,
                   next_level, num_requests, now, start_time, req_start, tasks,
                   inflight, process_times, percentiles, max_times, throughputs,
                   running_log, status_log, faults_left, launched>>

\* ramp_up_requests lines 34, 38, 31 and main lines 83-91: the window has
\* elapsed, the step returns process_times and closes its client, main records
\* the step if it has samples and enters asyncio.sleep(1).
StepReturn ==
    /\ pc = "while"
    /\ WindowElapsed
    /\ client_open' = FALSE
    /\ RecordStep
    /\ sleep_start' = now
    /\ pc' = "sleep"
    /\ UNCHANGED <<start_requests, max_requests, duration, error, ramp_up_step,
                   next_level, num_requests, now, start_time, req_start, tasks,
                   inflight, process_times, percentiles, max_times, throughputs,
                   running_log, status_log, faults_left, launched>>

\* A second passes while the wave is awaited.  A request still unanswered
\* after its first tick is a late one.
TickWave ==
    /\ pc = "gather"
    /\ Pending # {}
    /\ now - req_start < MaxLatency
    /\ LET newslow == IF now - req_start = 1 THEN Cardinality(Pending) ELSE 0
       IN  /\ newslow <= faults_left
           /\ faults_left' = faults_left - newslow
    /\ now' = now + 1
    /\ UNCHANGED <<start_requests, max_requests, duration, pc, error,
                   ramp_up_step, next_level, num_requests, client_open,
                   start_time, req_start, sleep_start, tasks, inflight,
                   process_times, average_response_times, concurrent_users,
                   all_process_times, percentiles, max_times, throughputs,
                   running_log, status_log, all_status_log, all_elapsed, launched>>

\* main line 91: a second passes in asyncio.sleep(1).
TickSleep ==
    /\ pc = "sleep"
    /\ now - sleep_start < SleepSeconds
    /\ now' = now + 1
    /\ UNCHANGED <<start_requests, max_requests, duration, pc, error,
                   ramp_up_step, next_level, num_requests, client_open,
                   start_time, req_start, sleep_start, tasks, inflight,
                   process_times, average_response_times, concurrent_users,
                   all_process_times, percentiles, max_times, throughputs,
                   running_log, status_log, all_status_log, all_elapsed, faults_left, launched>>

\* Mutant of SleepOver: the pause is dropped (asyncio.sleep(0)).
SleepOverAtOnce == now - sleep_start >= 0

\* The sleep of line 91 is over.
SleepOver == now - sleep_start >= SleepSeconds

\* main line 91 -> 79: asyncio.sleep(1) returns, the loop goes on.
SleepDone ==
    /\ pc = "sleep"
    /\ SleepOver
    /\ pc' = "for"
    /\ UNCHANGED <<start_requests, max_requests, duration, error, ramp_up_step,
                   next_level, num_requests, client_open, now, start_time,
                   req_start, sleep_start, tasks, inflight, process_times,
                   average_response_times, concurrent_users, all_process_times,
                   percentiles, max_times, throughputs, running_log, status_log,
                   all_status_log, all_elapsed, faults_left, launched>>

\* Mutant of Report: the samples of each step are sorted in place before the
\* statistics are taken (times.sort()).
ReportSortingInPlace ==
    /\ pc = "report"
    /\ all_process_times' = [k \in DOMAIN all_process_times |->
                                Sorted(all_process_times[k])]
    /\ percentiles' = [k \in DOMAIN all_process_times |->
                          Percentile(all_process_times[k], PercentileQ)]
    /\ max_times' = [k \in DOMAIN all_process_times |->
                        MaxSeq(all_process_times[k])]
    /\ throughputs' = [k \in DOMAIN all_process_times |->
                          Throughput(all_process_times[k])]
    /\ pc' = "done"
    /\ UNCHANGED <<start_requests, max_requests, duration, error, ramp_up_step,
                   next_level, num_requests, client_open, now, start_time,
                   req_start, sleep_start, tasks, inflight, process_times,
                   average_response_times, concurrent_users,
                   running_log, status_log, all_status_log, all_elapsed, faults_left, launched>>

\* main line 94 and save_plots_to_html lines 111, 121, 141, 221: the report
\* series are computed from the recorded steps and the report is written.
Report ==
    /\ pc = "report"
    /\ percentiles' = [k \in DOMAIN all_process_times |->
                          Percentile(all_process_times[k], PercentileQ)]
    /\ max_times' = [k \in DOMAIN all_process_times |->
                        MaxSeq(all_process_times[k])]
    /\ throughputs' = [k \in DOMAIN all_process_times |->
                          Throughput(all_process_times[k])]
    /\ pc' = "done"
    /\ UNCHANGED <<start_requests, max_requests, duration, error, ramp_up_step,
                   next_level, num_requests, client_open, now, start_time,
                   req_start, sleep_start, tasks, inflight, process_times,
                   average_response_times, concurrent_users, all_process_times,
                   running_log, status_log, all_status_log, all_elapsed, faults_left, launched>>

Next ==
    \/ CalcRampUpStep
    \/ MakeRange
    \/ ForNext
    \/ ForExit
    \/ Launch
    \/ Spin
    \/ \E i \in DOMAIN tasks, st \in {"ok", "bad"} : Respond(i, st)
    \/ \E i \in DOMAIN tasks : Raise(i)
    \/ Abort
    \/ GatherReturn
    \/ StepReturn
    \/ TickWave
    \/ TickSleep
    \/ SleepDone
    \/ Report

Spec == Init /\ [][Next]_vars

\* ---- the statistics on given step results --------------------------------

\* Latencies (ms) the step results of SpecStats are made of.
SampleValues == {10, 20, 30, 40, 100}

SampleSeqs == UNION {[1..n -> SampleValues] : n \in 1..MaxSamples}

\* The run of --start-requests 1 --max-requests 2 --duration 5 at the while
\* check (line 34) that ends its first step, after StepSeconds or more, with
\* any step result of up to MaxSamples latencies in process_times.
InitStats ==
    /\ start_requests = 1
    /\ max_requests = 2
    /\ duration = 5
    /\ pc = "while"
    /\ error = "none"
    /\ ramp_up_step = RampUpStep(1, 2, 5)
    /\ next_level = 1 + RampUpStep(1, 2, 5)
    /\ num_requests = 1
    /\ client_open = TRUE
    /\ now \in duration_per_step..MaxLatency
    /\ start_time = 0
    /\ req_start = 0
    /\ sleep_start = 0
    /\ tasks = <<>>
    /\ inflight = 0
    /\ process_times \in SampleSeqs
    /\ launched = Len(process_times)
    /\ average_response_times = <<>>
    /\ concurrent_users = <<>>
    /\ all_process_times = <<>>
    /\ percentiles = <<>>
    /\ max_times = <<>>
    /\ throughputs = <<>>
    /\ running_log = <<1>>
    /\ status_log = [i \in DOMAIN process_times |-> "ok"]
    /\ all_status_log = <<>>
    /\ all_elapsed = <<>>
    /\ faults_left = 0

\* The rest of such a run when no request raises.
NextStats ==
    \/ StepReturn
    \/ TickSleep
    \/ SleepDone
    \/ ForNext
    \/ ForExit
    \/ Launch
    \/ \E i \in DOMAIN tasks : Respond(i, "ok")
    \/ TickWave
    \/ GatherReturn
    \/ Report

SpecStats == InitStats /\ [][NextStats]_vars

\* ---- runs in which every request is answered ------------------------------

\* The configurations of Init, the throughput scenario
\* --start-requests 10 --max-requests 11 --duration 5 on a server that answers
\* every request within a second, and --start-requests 1 --max-requests 2
\* --duration 5 on a server that answers up to two requests late.
InitWaves ==
    /\ \/ /\ start_requests \in 0..MaxRequests
          /\ max_requests \in 0..MaxRequests
          /\ duration \in (-1)..MaxDuration
          /\ \/ faults_left = 0
             \/ /\ start_requests <= MaxFaulty
                /\ max_requests <= MaxFaulty
                /\ duration = duration_per_step
                /\ faults_left = MaxFaults
       \/ /\ start_requests = 10
          /\ max_requests = 11
          /\ duration = 5
          /\ faults_left = 0
       \/ /\ start_requests = 1
          /\ max_requests = 2
          /\ duration = 5
          /\ faults_left = 2
    /\ pc = "calc"
    /\ error = "none"
    /\ ramp_up_step = 0
    /\ next_level = 0
    /\ num_requests = 0
    /\ client_open = FALSE
    /\ now = 0
    /\ start_time = 0
    /\ req_start = 0
    /\ sleep_start = 0
    /\ tasks = <<>>
    /\ inflight = 0
    /\ launched = 0
    /\ process_times = <<>>
    /\ average_response_times = <<>>
    /\ concurrent_users = <<>>
    /\ all_process_times = <<>>
    /\ percentiles = <<>>
    /\ max_times = <<>>
    /\ throughputs = <<>>
    /\ running_log = <<>>
    /\ status_log = <<>>
    /\ all_status_log = <<>>
    /\ all_elapsed = <<>>

\* The steps of a run in which client.post never raises.
NextWaves ==
    \/ CalcRampUpStep
    \/ MakeRange
    \/ ForNext
    \/ ForExit
    \/ Launch
    \/ Spin
    \/ \E i \in DOMAIN tasks, st \in {"ok", "bad"} : Respond(i, st)
    \/ GatherReturn
    \/ StepReturn
    \/ TickWave
    \/ TickSleep
    \/ SleepDone
    \/ Report

SpecWaves == InitWaves /\ [][NextWaves]_vars

\* The runs of Init in which client.post never raises, every response
\* arrives, time advances and the event loop runs whatever is ready.
SpecFair == Init /\ [][NextWaves]_vars /\ WF_vars(NextWaves)

\* ---- the claims ----------------------------------------------------------

\* A configuration the specification calls valid.
ValidConfig ==
    /\ start_requests >= 1
    /\ max_requests >= start_requests
    /\ duration >= 1

StrictlyIncreasing(s) == \A k \in 1..(Len(s) - 1) : s[k] < s[k + 1]

\* C1: for every valid configuration the levels the scheduler has executed when
\* the run is over are strictly increasing, begin with start_requests and end
\* with a level >= max_requests.
C1_PlanReachesMax ==
    (ValidConfig /\ pc = "done") =>
        /\ running_log # <<>>
        /\ StrictlyIncreasing(running_log)
        /\ running_log[1] = start_requests
        /\ running_log[Len(running_log)] >= max_requests

\* C2: when a request of a wave has failed (raised), the wave is not aborted:
\* it is still being awaited, so that the other requests complete and are
\* collected and the step and the scheduler go on.
C2_FailureKeepsWave ==
    (\E i \in DOMAIN tasks : tasks[i].state = "raised") => pc = "gather"

\* C3: a wave ends only after all its executors have completed, and every wave
\* that has ended has contributed exactly as many entries as it launched
\* requests, successes and failures alike.
C3_WaveReturnsAll ==
    /\ Pending # {} => pc = "gather"
    /\ pc # "gather" => Len(process_times) = launched

\* C4: closed loop.  At most num_requests requests are in flight in every
\* reachable state, exactly num_requests right after a wave is launched, and a
\* wave is launched only from a state with no request in flight.
C4_ClosedLoop ==
    /\ inflight <= num_requests
    /\ (pc = "gather" /\ Pending = DOMAIN tasks) =>
            (inflight = num_requests /\ Len(tasks) = num_requests)
    /\ pc = "while" => inflight = 0

\* C4 witness: under a valid configuration, a further wave of a step of at
\* least two concurrent requests has just been launched after the previous
\* wave was collected.
C4_Witness ==
    /\ ValidConfig
    /\ pc = "gather"
    /\ num_requests >= 2
    /\ process_times # <<>>
    /\ inflight = num_requests

\* Every request of the step's only wave has failed.
AllRequestsFailed ==
    /\ tasks # <<>>
    /\ process_times = <<>>
    /\ \A i \in DOMAIN tasks : tasks[i].state = "raised"

\* C5: a step in which every request fails does not abort the scheduler: the
\* run does not end with the failure.
C5_AllFailedStepIsSkipped == AllRequestsFailed => pc # "crashed"

\* A configuration the specification calls a configuration failure.
InvalidConfig == max_requests < start_requests \/ duration <= 0

\* C6: an invalid configuration is rejected before the scheduler begins: no
\* step is run, no request is sent and no report is produced.
C6_InvalidConfigRejected ==
    InvalidConfig => (running_log = <<>> /\ inflight = 0 /\ pc # "done")

\* C7: the window is a minimum.  When a step has returned, at least
\* duration_per_step seconds have elapsed since its start, no request is outstanding and the
\* samples of every request it launched are in its result, also those of a
\* wave that was still running when the window expired.
C7_WindowIsMinimum ==
    pc = "sleep" =>
        /\ sleep_start - start_time >= duration_per_step
        /\ inflight = 0
        /\ Pending = {}
        /\ Len(process_times) = launched

\* C7 witness: under a valid configuration, a step has returned whose first
\* wave, of a single request, took longer than the whole window; its sample is
\* in the result.
C7_Witness ==
    /\ ValidConfig
    /\ pc = "sleep"
    /\ launched = 1
    /\ Len(process_times) = 1
    /\ process_times[1] > duration_per_step * MsPerTick

\* C8: steps are sequential.  No request is in flight during a pause; the loop
\* head is reached after a step only through that step's completed pause; and
\* a later step runs only after the pause that followed the step before it.
C8_StepsSequential ==
    /\ pc = "sleep" => (inflight = 0 /\ sleep_start >= start_time + duration_per_step)
    /\ (pc \in {"for", "report", "done"} /\ running_log # <<>>) =>
            /\ sleep_start >= start_time + duration_per_step
            /\ now - sleep_start >= SleepSeconds
            /\ inflight = 0
    /\ (pc \in {"while", "gather", "aborting"} /\ Len(running_log) >= 2) =>
            start_time - sleep_start >= SleepSeconds

\* C8 witness: under a valid configuration, the second step has begun, one
\* pause after the first step returned with its samples.
C8_Witness ==
    /\ ValidConfig
    /\ pc = "while"
    /\ Len(running_log) = 2
    /\ Len(all_process_times) = 1
    /\ start_time - sleep_start = SleepSeconds

\* The same after a first step that produced no samples (a level of 0 requests).
C8_WitnessNoSamples ==
    /\ pc = "while"
    /\ Len(running_log) = 2
    /\ all_process_times = <<>>
    /\ start_time - sleep_start = SleepSeconds

\* The stride as the specification derives it.
SpecTotalSteps == IF duration \div StepSeconds >= 1 THEN duration \div StepSeconds ELSE 1

SpecStride ==
    LET c == CeilDiv(max_requests - start_requests, SpecTotalSteps)
    IN  IF c >= 1 THEN c ELSE 1

\* C9: for 1 <= start_requests <= max_requests and duration >= 1 the stride is
\* max(1, ceil((max - start) / max(1, duration // 5))), and computing it and
\* the plan raises no error.
C9_StrideAsSpecified ==
    (ValidConfig /\ pc \notin {"calc", "range"}) =>
        /\ error \notin {"ZeroDivisionError", "ValueError"}
        /\ ramp_up_step = SpecStride

\* The samples of times whose response carried a success status.
RECURSIVE OkTimes(_, _)
OkTimes(times, log) ==
    IF times = <<>> THEN <<>>
    ELSE (IF Head(log) = "ok" THEN <<Head(times)>> ELSE <<>>)
             \o OkTimes(Tail(times), Tail(log))

\* C10: a response with a non-success status is a failed sample: in the report
\* of a valid configuration, the mean, the 95th percentile and the maximum of
\* every step are those of its successful samples only.
C10_BadStatusExcluded ==
    (ValidConfig /\ pc = "done") =>
        \A k \in DOMAIN all_process_times :
            LET ok == OkTimes(all_process_times[k], all_status_log[k])
            IN  /\ ok # <<>>
                /\ average_response_times[k] = Mean(ok)
                /\ percentiles[k] = Percentile(ok, PercentileQ)
                /\ max_times[k] = MaxSeq(ok)

\* The j-th smallest of the samples t, by counting.
KthSmallest(t, j) ==
    CHOOSE x \in {t[i] : i \in DOMAIN t} :
        /\ Cardinality({i \in DOMAIN t : t[i] < x}) < j
        /\ j <= Cardinality({i \in DOMAIN t : t[i] <= x})

\* The fraction f equals num / den.
FracIs(f, num, den) == f[1] * den = f[2] * num

\* C11: in the report, every recorded step has mean = sum / n, p95 = the linear
\* interpolation between the two nearest ranks at position 0.95 * (n - 1),
\* max = its largest sample and throughput = n / 5, whatever time the step
\* took; the samples 10, 20, 30, 40, 100 give 40, 88, 100 and 1.
C11_SummaryStatistics ==
    pc = "done" =>
        \A k \in DOMAIN all_process_times :
            LET t == all_process_times[k]
                n == Len(t)
                h == 95 * (n - 1)
                lo == h \div 100
                fr == h % 100
                a == KthSmallest(t, lo + 1)
                b == KthSmallest(t, IF lo + 2 <= n THEN lo + 2 ELSE n)
            IN  /\ FracIs(average_response_times[k], SumSeq(t), n)
                /\ FracIs(percentiles[k], (100 - fr) * a + fr * b, 100)
                /\ \E i \in DOMAIN t : max_times[k] = t[i]
                /\ \A i \in DOMAIN t : t[i] <= max_times[k]
                /\ FracIs(throughputs[k], n, 5)
                /\ t = <<10, 20, 30, 40, 100>> =>
                        /\ average_response_times[k] = <<40, 1>>
                        /\ percentiles[k] = <<88, 1>>
                        /\ max_times[k] = 100
                        /\ throughputs[k] = <<1, 1>>

\* C11 witness: the report holds the step 10, 20, 30, 40, 100, which took
\* longer than the nominal window.
C11_Witness ==
    /\ pc = "done"
    /\ Len(all_process_times) >= 1
    /\ all_process_times[1] = <<10, 20, 30, 40, 100>>
    /\ all_elapsed[1] > duration_per_step
    /\ throughputs[1] = <<1, 1>>

\* The duration (ms) of wave j of a step result t at concurrency n: gather
\* returns when the slowest of its n requests has.
WaveMs(t, n, j) == MaxSeq(SubSeq(t, (j - 1) * n + 1, j * n))

\* Recorded step k had no failed request and waves of d seconds each.
UniformWaves(k, d) ==
    LET t == all_process_times[k]
        n == concurrent_users[k]
    IN  /\ n >= 1
        /\ Len(t) % n = 0
        /\ \A i \in DOMAIN t : all_status_log[k][i] = "ok"
        /\ \A j \in 1..(Len(t) \div n) : WaveMs(t, n, j) = d * 1000

\* C12: a recorded step without failures whose waves all took d seconds has
\* dispatched ceil(5 / d) waves and collected concurrency * ceil(5 / d)
\* samples; at concurrency 10 with d = 1 that is 50 samples, and the report
\* gives it a throughput of 10 per second.
C12_UniformWaves ==
    \A k \in DOMAIN all_process_times :
        \A d \in 1..MaxLatency :
            UniformWaves(k, d) =>
                LET n == concurrent_users[k]
                    waves == (5 + d - 1) \div d
                IN  /\ Len(all_process_times[k]) = n * waves
                    /\ pc = "done" => FracIs(throughputs[k], n * waves, 5)
                    /\ (n = 10 /\ d = 1) =>
                            /\ Len(all_process_times[k]) = 50
                            /\ pc = "done" => throughputs[k] = <<10, 1>>

\* C12 witness: the report of a step at concurrency 10 with five waves of one
\* second each.
C12_Witness ==
    /\ pc = "done"
    /\ \E k \in DOMAIN all_process_times :
            /\ concurrent_users[k] = 10
            /\ UniformWaves(k, 1)
            /\ Len(all_process_times[k]) = 50
            /\ throughputs[k] = <<10, 1>>

\* A recorded step of one wave that took the whole window or longer.
C12_WitnessSlowWave ==
    \E k \in DOMAIN all_process_times :
        \E d \in 5..MaxLatency :
            /\ UniformWaves(k, d)
            /\ Len(all_process_times[k]) = concurrent_users[k]

\* A recorded step of two waves of three seconds each.
C12_WitnessTwoWaves ==
    \E k \in DOMAIN all_process_times :
        /\ UniformWaves(k, 3)
        /\ Len(all_process_times[k]) = 2 * concurrent_users[k]

\* C13: writing the report leaves the recorded raw latency collections and
\* the recorded concurrency levels as they were, and the statistics it reports
\* are those a second computation from the same step results gives.
C13_SummaryPure ==
    [][(pc = "report" /\ pc' = "done") =>
            /\ all_process_times' = all_process_times
            /\ concurrent_users' = concurrent_users
            /\ average_response_times' = average_response_times
            /\ \A k \in DOMAIN all_process_times' :
                    /\ average_response_times'[k] = Mean(all_process_times'[k])
                    /\ percentiles'[k] = Percentile(all_process_times'[k], 95)
                    /\ max_times'[k] = MaxSeq(all_process_times'[k])
                    /\ throughputs'[k] = Throughput(all_process_times'[k])]_vars

\* C13 witness: a report was written for a step whose samples were not
\* collected in ascending order.
C13_Witness ==
    /\ pc = "done"
    /\ ValidConfig
    /\ \E k \in DOMAIN all_process_times :
            /\ all_process_times[k] # Sorted(all_process_times[k])
            /\ percentiles[k] = Percentile(all_process_times[k], 95)

\* C14: the client is open exactly while a step runs (its loop, its waves and
\* the delivery of a raised exception), so it is closed in the pause, between
\* steps, after the report and after a run ended by an exception; a client is
\* opened only at a step's start and only when none is open, and no wave
\* opens or closes one.
C14_ClientScopedToStep ==
    /\ [](client_open <=> pc \in {"while", "gather", "aborting"})
    /\ [][/\ (client_open' /\ ~client_open) => (pc = "for" /\ pc' = "while")
          /\ (pc = "for" /\ pc' = "while") => (~client_open /\ client_open')
          /\ (~client_open' /\ client_open) =>
                \/ (pc = "while" /\ pc' = "sleep")
                \/ (pc = "aborting" /\ pc' = "crashed")]_vars

\* C14 witness: a first step returned and was recorded, a request of a later
\* step raised, and the run has ended with the client closed.
C14_Witness ==
    /\ pc = "crashed"
    /\ error = "RequestError"
    /\ ValidConfig
    /\ Len(all_process_times) >= 1
    /\ launched > 0
    /\ ~client_open

\* The run has ended with the report written after at least one level, the
\* levels run once each in ascending order from start_requests, each step
\* returned and none left open.
RampCompleted ==
    /\ pc = "done"
    /\ error = "none"
    /\ Len(running_log) >= 1
    /\ running_log[1] = start_requests
    /\ StrictlyIncreasing(running_log)
    /\ Len(all_process_times) = Len(running_log)
    /\ concurrent_users = running_log
    /\ Len(throughputs) = Len(running_log)

\* C15: when no request raises, every response arrives and time advances, the
\* run of a valid configuration ends with every level of its plan run once,
\* in ascending order, and the report written.
C15_RampTerminates == ValidConfig => <>[]RampCompleted

\* The valid configurations with duration >= 5 and start_requests <
\* max_requests, which the stride computation accepts: their runs do not end
\* with an error, and a run that has ended has completed the ramp.
C15_EndsOnlyCompleted ==
    (ValidConfig /\ duration >= StepSeconds /\ start_requests < max_requests)
        => /\ pc # "crashed"
           /\ pc = "done" => RampCompleted

\* C16: the step's latency accumulator changes only when no request is in
\* flight (when a wave's results are returned, or when a step begins), and
\* a request that returns or raises writes only its own result: the
\* results of the other requests, the accumulator, the client and the recorded
\* series stay as they are.
C16_NoSharedMutableState ==
    [][/\ process_times' # process_times =>
            /\ inflight = 0
            /\ Pending = {}
            /\ pc \in {"gather", "for"}
       /\ \A i \in Pending :
            (DOMAIN tasks' = DOMAIN tasks
                /\ tasks'[i].state \in {"done", "raised"}) =>
            /\ \A j \in DOMAIN tasks \ {i} : tasks'[j] = tasks[j]
            /\ UNCHANGED <<process_times, status_log, client_open,
                           all_process_times, average_response_times,
                           concurrent_users, num_requests, start_time,
                           req_start>>]_vars

\* C16 witness: in a later wave of a step, one request has completed while
\* another is still in flight, and the accumulator holds the earlier waves
\* only.
C16_Witness ==
    /\ pc = "gather"
    /\ ValidConfig
    /\ inflight >= 1
    /\ \E i \in DOMAIN tasks : tasks[i].state = "done"
    /\ process_times # <<>>
    /\ Len(process_times) + num_requests = launched

\* C17: once the stride is computed, for start_requests <= max_requests and a
\* stride >= 1 every level the scheduler has run lies in
\* start_requests..max_requests, and it has run at most
\* floor(duration / 5) + 1 levels.
C17_LevelsWithinBounds ==
    (start_requests <= max_requests /\ ramp_up_step >= 1) =>
        /\ \A k \in DOMAIN running_log :
                /\ start_requests <= running_log[k]
                /\ running_log[k] <= max_requests
        /\ Len(running_log) <= FloorDiv(duration, 5) + 1

\* C17 witness: a finished run of three or more levels that ran
\* floor(duration / 5) + 1 of them, the last one max_requests.
C17_Witness ==
    /\ pc = "done"
    /\ ValidConfig
    /\ ramp_up_step >= 1
    /\ Len(running_log) >= 3
    /\ Len(running_log) = FloorDiv(duration, 5) + 1
    /\ running_log[Len(running_log)] = max_requests

\* s is t, or t with entries appended.
Extends(s, t) == Len(s) >= Len(t) /\ SubSeq(s, 1, Len(t)) = t

\* The three result series have one entry per recorded step, entry k of each
\* from the same step, and no recorded collection is empty.
SeriesAligned ==
    /\ Len(concurrent_users) = Len(average_response_times)
    /\ Len(concurrent_users) = Len(all_process_times)
    /\ \A k \in DOMAIN all_process_times :
            /\ all_process_times[k] # <<>>
            /\ average_response_times[k] = Mean(all_process_times[k])
            /\ \E j \in DOMAIN running_log : running_log[j] = concurrent_users[k]
            /\ concurrent_users[k] >= 1
            /\ Len(all_process_times[k]) % concurrent_users[k] = 0

\* C18: at every point of a run the three result series are aligned, every
\* recorded collection is non-empty and the recorded concurrency levels are
\* strictly increasing.
C18_SeriesConsistent ==
    /\ SeriesAligned
    /\ StrictlyIncreasing(concurrent_users)

\* No step of the program changes or removes a recorded entry.
C18_AppendOnly ==
    [][/\ Extends(concurrent_users', concurrent_users)
       /\ Extends(average_response_times', average_response_times)
       /\ Extends(all_process_times', all_process_times)]_vars

\* For start_requests <= max_requests the series are consistent.
C18_ConsistentWhenAscending ==
    start_requests <= max_requests => C18_SeriesConsistent

====
